---- MODULE Spec2Model ----
(***************************************************************************)
(* A model of the fil_backend example material:                            *)
(*   - the fraud-detection notebook (serialize models, write configs,      *)
(*     start the server container, wait for readiness, submit inference    *)
(*     requests, run perf_analyzer, tear the container down);              *)
(*   - create_batches and the max_batch_size computation as pure functions;*)
(*   - the multi-stage Dockerfile that packages the backend.               *)
(***************************************************************************)
EXTENDS Integers, Sequences, FiniteSets, TLC

VARIABLES
    \* ---- notebook run
    pc,               \* index into Program of the statement being executed
    phase,            \* position inside a statement that blocks
    exc,              \* exception that stopped the notebook ("none": running)
    now,              \* time.time(), whole seconds
    server_start,     \* the wait loop's server_start
    pulled,           \* docker pull has been issued
    container,        \* "none" | "running" | "removed"  (docker run / docker rm -f)
    server,           \* the server process: "none" | "down" | "loading" | "ready"
    files,            \* the model repository: path -> content
    features, num_classes, bytes_per_sample, max_batch_size,
    np_rows,          \* np_data.shape[0]
    batches,          \* chunk sizes of the running chunked inference
    chunk,            \* index of the chunk being submitted
    outstanding,      \* inference requests of the notebook's client in flight
    sent, received,   \* inference requests sent / responses received
    triton_result,    \* result of the five-row request (<<>>: none yet)
    log,              \* what was issued, with the context it was issued in
    exitReason,       \* how the wait loop ended: "none" | "ready" | "timeout"
    pollBegan,        \* seconds since server_start at which the last poll began
    pollRaised,       \* some readiness poll raised InferenceServerException
    \* ---- image build
    buildArg,         \* --build-arg BACKEND_NAME=<value>, or Unset
    baseImage,        \* file system of ${BASE_IMAGE}
    serverImage,      \* value of SERVER_IMAGE
    useClientWheel,   \* value of USE_CLIENT_WHEEL: "0" | "1"
    target,           \* --target <stage> (default: the last stage)
    stageFs,          \* stage -> file system built so far
    stageEnv,         \* stage -> value of the environment variable BACKEND_NAME
    stagePc           \* stage -> index of its next instruction (0: FROM not run)

nbVars == <<pc, phase, exc, now, server_start, pulled, container, server, files,
            features, num_classes, bytes_per_sample, max_batch_size, np_rows,
            batches, chunk, outstanding, sent, received, triton_result, log,
            exitReason, pollBegan, pollRaised>>
buildInputs == <<buildArg, baseImage, serverImage, useClientWheel, target>>
dkVars == <<buildInputs, stageFs, stageEnv, stagePc>>
vars == <<nbVars, dkVars>>

----------------------------------------------------------------------------
(* Bounds of the model *)

\* a readiness poll takes 0..MaxPollDelay seconds
MaxPollDelay == 1
\* time.sleep(1) oversleeps by 0..MaxSleepJitter seconds
MaxSleepJitter == 0
\* docker run -d returns after 0..MaxRunDelay seconds
MaxRunDelay == 1
\* the wait loop is followed until MaxOvertime seconds past TIMEOUT
MaxOvertime == 3
\* create_batches is applied to arrays of 0..MaxRows rows
MaxRows == 20
\* ... with max_batch_size in 1..MaxBatch
MaxBatch == 3
\* max_batch_size is computed for 1..MaxFeatures features, 1..MaxClasses classes
MaxFeatures == 400
MaxClasses == 3
\* a served probability is off the local one by 0..MaxDeviation millionths
MaxDeviation == 2

(* Program constants *)
TIMEOUT == 60
MAX_MEMORY_BYTES == 60000000
GPU_COUNT == 8
\* rtol=1e-6, atol=1e-6: probabilities are counted in millionths
Micro == 1000000

Max(a, b) == IF a >= b THEN a ELSE b
Abs(x) == IF x < 0 THEN -x ELSE x

----------------------------------------------------------------------------
(* Strings as character sequences: str.lower() *)

UpperCase == <<"A", "B", "C", "D", "E", "F", "G", "H", "I", "J", "K", "L", "M",
               "N", "O", "P", "Q", "R", "S", "T", "U", "V", "W", "X", "Y", "Z">>
LowerCase == <<"a", "b", "c", "d", "e", "f", "g", "h", "i", "j", "k", "l", "m",
               "n", "o", "p", "q", "r", "s", "t", "u", "v", "w", "x", "y", "z">>

LowerChar(c) ==
    IF \E i \in DOMAIN UpperCase : UpperCase[i] = c
    THEN LowerCase[CHOOSE i \in DOMAIN UpperCase : UpperCase[i] = c]
    ELSE c

\* faulty variant of Lower: the string as it is
LowerUnchanged(s) == s

Lower(s) == [i \in DOMAIN s |-> LowerChar(s[i])]

----------------------------------------------------------------------------
(* The model repository *)

ModelNames == {"small_model", "small_model-cpu", "large_model", "large_model-cpu"}

\* <REPO_PATH>/<model_name>/1/xgboost.json
ModelFile(model_name) == <<model_name, "1", "xgboost.json">>
\* <REPO_PATH>/<model_name>/config.pbtxt
ConfigFile(model_dir) == <<model_dir, "config.pbtxt">>

RepoPaths == {ModelFile(n) : n \in ModelNames} \cup {ConfigFile(n) : n \in ModelNames}

Absent == [kind |-> "absent"]
Stale == [kind |-> "stale"]

\* train_model(num_trees, max_depth): the two trained models
train_model(num_trees, max_depth) ==
    [kind |-> "xgboost_json", num_trees |-> num_trees, max_depth |-> max_depth]

TrainedModel(name) ==
    IF name = "small_model" THEN train_model(500, 3) ELSE train_model(5000, 12)

\* the model saved under a model name
ModelOf(model_name) ==
    IF model_name \in {"small_model", "small_model-cpu"} THEN "small_model"
    ELSE "large_model"

\* serialize_model(model, model_name): the repository after the call
serialize_model(fs, model, model_name) ==
    [fs EXCEPT ![ModelFile(model_name)] = TrainedModel(model)]

\* bytes_per_sample and max_batch_size
BytesPerSample(f, c) == (f + c) * 4

\* faulty variant of MaxBatchSize: rounds up
MaxBatchSizeCeil(f, c) ==
    (MAX_MEMORY_BYTES + BytesPerSample(f, c) - 1) \div BytesPerSample(f, c)

MaxBatchSize(f, c) == MAX_MEMORY_BYTES \div BytesPerSample(f, c)

\* faulty variant of InstanceKind: deployment_type is ignored
InstanceKindAlwaysGpu(deployment_type) == "KIND_GPU"

\* generate_config: instance_kind from deployment_type
InstanceKind(deployment_type) ==
    IF Lower(deployment_type) = <<"c", "p", "u">> THEN "KIND_CPU" ELSE "KIND_GPU"

\* generate_config: config_text
ConfigText(deployment_type, storage_type, mbs, f, c) ==
    [kind |-> "config",
     backend |-> "fil",
     max_batch_size |-> mbs,
     input_dims |-> f,
     output_dims |-> c,
     instance_kind |-> InstanceKind(deployment_type),
     model_type |-> "xgboost_json",
     predict_proba |-> "true",
     output_class |-> "true",
     threshold |-> "0.5",
     storage_type |-> storage_type,
     max_queue_delay_microseconds |-> 100]

\* generate_config(model_dir, deployment_type, storage_type): the repository after
generate_config(fs, model_dir, deployment_type, storage_type, mbs, f, c) ==
    [fs EXCEPT ![ConfigFile(model_dir)] =
        ConfigText(deployment_type, storage_type, mbs, f, c)]

----------------------------------------------------------------------------
(* The notebook's statements, in cell order *)

St(op, a, b) == [op |-> op, a |-> a, b |-> b]

Gpu == <<"g", "p", "u">>
Cpu == <<"c", "p", "u">>

Setup ==
    << St("docker_pull", "", <<>>),
       St("makedirs", "", <<>>),
       St("serialize_model", "small_model", <<"small_model">>),
       St("serialize_model", "small_model", <<"small_model-cpu">>),
       St("serialize_model", "large_model", <<"large_model">>),
       St("serialize_model", "large_model", <<"large_model-cpu">>),
       St("max_batch_size", "", <<>>),
       St("generate_config", "small_model", Gpu),
       St("generate_config", "small_model-cpu", Cpu),
       St("generate_config", "large_model", Gpu),
       St("generate_config", "large_model-cpu", Cpu) >>

Serving ==
    << St("triton_predict", "small_model", <<>>),
       St("assert_allclose", "", <<>>),
       St("perf_analyzer", "large_model-cpu", <<>>),
       St("perf_analyzer", "large_model", <<>>),
       St("perf_analyzer", "large_model-cpu", <<>>),
       St("perf_analyzer", "large_model", <<>>),
       St("perf_analyzer", "small_model-cpu", <<>>),
       St("perf_analyzer", "small_model", <<>>),
       St("perf_analyzer", "large_model", <<>>),
       St("chunked_predict", "large_model", <<>>),
       St("chunked_predict", "small_model-cpu", <<>>) >>

StartServer ==
    << St("docker_run", "", <<>>),
       St("wait_loop", "", <<>>),
       St("docker_logs", "", <<>>) >>

\* faulty variants of Program:
\* the server is started before the configuration files are written
ProgramRunBeforeConfig ==
    SubSeq(Setup, 1, 7) \o StartServer \o SubSeq(Setup, 8, 11) \o Serving
        \o << St("docker_rm", "", <<>>) >>

\* the first inference request is submitted before the wait loop
ProgramPredictBeforeWait ==
    Setup \o << St("docker_run", "", <<>>) >> \o SubSeq(Serving, 1, 2)
        \o SubSeq(StartServer, 2, 3) \o SubSeq(Serving, 3, 11)
        \o << St("docker_rm", "", <<>>) >>

\* the container is removed before the chunked inference
ProgramRmBeforeChunks ==
    Setup \o StartServer \o SubSeq(Serving, 1, 9)
        \o << St("docker_rm", "", <<>>) >> \o SubSeq(Serving, 10, 11)

Program == Setup \o StartServer \o Serving \o << St("docker_rm", "", <<>>) >>

Cur == Program[pc]
Running == exc = "none" /\ pc <= Len(Program)
At(op) == Running /\ Cur.op = op

\* what is recorded of an issued command: the context it was issued in
Entry(op) ==
    [op |-> op, pulled |-> pulled, container |-> container,
     exit |-> exitReason,
     written |-> {p \in RepoPaths : files[p].kind \in {"xgboost_json", "config"}}]

----------------------------------------------------------------------------
(* create_batches *)

\* np.array_split(arr, sections): the sizes of the sections
array_split(rows, sections) ==
    [i \in 1..sections |->
        IF i <= rows % sections THEN rows \div sections + 1 ELSE rows \div sections]

\* faulty variant of NumChunks: the remainder is forgotten
NumChunksFloor(rows, mbs) == rows \div mbs

\* create_batches: chunks
NumChunks(rows, mbs) ==
    rows \div mbs + (IF rows % mbs # 0 \/ rows < mbs THEN 1 ELSE 0)

\* create_batches(arr): the sizes of the chunks returned
create_batches(rows, mbs) == array_split(rows, Max(GPU_COUNT, NumChunks(rows, mbs)))

----------------------------------------------------------------------------
(* The notebook run *)

\* sample test sets: X_test.shape[1], cp.unique(y_test).size, np_data.shape[0]
Datasets == {[features |-> 1, num_classes |-> 2, rows |-> 5],
             [features |-> 3, num_classes |-> 2, rows |-> 9]}

\* what a previous run may have left in the repository directory
AmbientStale == {[p \in RepoPaths |-> IF p[1] \in d THEN Stale ELSE Absent] :
                    d \in {{}, {"small_model-cpu", "large_model"}, ModelNames}}

NbIdle ==
    /\ pc = 1 /\ phase = "start" /\ exc = "none"
    /\ now = 0 /\ server_start = 0
    /\ pulled = FALSE /\ container = "none" /\ server = "none"
    /\ files = [p \in RepoPaths |-> Absent]
    /\ features = 1 /\ num_classes = 1
    /\ bytes_per_sample = 0 /\ max_batch_size = 0
    /\ np_rows = 0 /\ batches = <<>> /\ chunk = 0
    /\ outstanding = 0 /\ sent = 0 /\ received = 0
    /\ triton_result = <<>> /\ log = {}
    /\ exitReason = "none" /\ pollBegan = 0 /\ pollRaised = FALSE

DkIdle ==
    /\ buildArg = "" /\ baseImage = {} /\ serverImage = "" /\ useClientWheel = ""
    /\ target = "" /\ stageFs = <<>> /\ stageEnv = <<>> /\ stagePc = <<>>

Init ==
    /\ pc = 1 /\ phase = "start" /\ exc = "none"
    /\ now = 0 /\ server_start = 0
    /\ pulled = FALSE /\ container = "none" /\ server = "none"
    /\ files \in AmbientStale
    /\ \E d \in Datasets :
        features = d.features /\ num_classes = d.num_classes /\ np_rows = d.rows
    /\ bytes_per_sample = 0 /\ max_batch_size = 0
    /\ batches = <<>> /\ chunk = 0
    /\ outstanding = 0 /\ sent = 0 /\ received = 0
    /\ triton_result = <<>> /\ log = {}
    /\ exitReason = "none" /\ pollBegan = 0 /\ pollRaised = FALSE
    /\ DkIdle

\* !docker pull {TRITON_IMAGE}
DockerPull ==
    /\ At("docker_pull")
    /\ pulled' = TRUE
    /\ log' = log \cup {Entry("docker_pull")}
    /\ pc' = pc + 1
    /\ UNCHANGED <<phase, exc, now, server_start, container, server, files, features,
                   num_classes, bytes_per_sample, max_batch_size, np_rows, batches,
                   chunk, outstanding, sent, received, triton_result, exitReason,
                   pollBegan, pollRaised>>
    /\ UNCHANGED dkVars

\* os.makedirs(REPO_PATH, exist_ok=True): what is in the directory stays
MakeDirs ==
    /\ At("makedirs")
    /\ pc' = pc + 1
    /\ UNCHANGED <<phase, exc, now, server_start, pulled, container, server, files,
                   features, num_classes, bytes_per_sample, max_batch_size, np_rows,
                   batches, chunk, outstanding, sent, received, triton_result, log,
                   exitReason, pollBegan, pollRaised>>
    /\ UNCHANGED dkVars

SerializeModel ==
    /\ At("serialize_model")
    /\ files' = serialize_model(files, Cur.a, Cur.b[1])
    /\ pc' = pc + 1
    /\ UNCHANGED <<phase, exc, now, server_start, pulled, container, server,
                   features, num_classes, bytes_per_sample, max_batch_size, np_rows,
                   batches, chunk, outstanding, sent, received, triton_result, log,
                   exitReason, pollBegan, pollRaised>>
    /\ UNCHANGED dkVars

\* bytes_per_sample = (features + num_classes) * 4
\* max_batch_size = MAX_MEMORY_BYTES // bytes_per_sample
ComputeMaxBatchSize ==
    /\ At("max_batch_size")
    /\ bytes_per_sample' = BytesPerSample(features, num_classes)
    /\ max_batch_size' = MaxBatchSize(features, num_classes)
    /\ pc' = pc + 1
    /\ UNCHANGED <<phase, exc, now, server_start, pulled, container, server, files,
                   features, num_classes, np_rows, batches, chunk, outstanding, sent,
                   received, triton_result, log, exitReason, pollBegan, pollRaised>>
    /\ UNCHANGED dkVars

GenerateConfig ==
    /\ At("generate_config")
    /\ files' = generate_config(files, Cur.a, Cur.b, "AUTO",
                                max_batch_size, features, num_classes)
    /\ pc' = pc + 1
    /\ UNCHANGED <<phase, exc, now, server_start, pulled, container, server,
                   features, num_classes, bytes_per_sample, max_batch_size, np_rows,
                   batches, chunk, outstanding, sent, received, triton_result, log,
                   exitReason, pollBegan, pollRaised>>
    /\ UNCHANGED dkVars

\* !docker run ... -d ... --name tritonserver {TRITON_IMAGE} tritonserver ...
DockerRun ==
    /\ At("docker_run")
    /\ container' = "running"
    /\ server' = "down"
    /\ \E d \in 0..MaxRunDelay : now' = now + d
    /\ log' = log \cup {Entry("docker_run")}
    /\ pc' = pc + 1
    /\ UNCHANGED <<phase, exc, server_start, pulled, files, features, num_classes,
                   bytes_per_sample, max_batch_size, np_rows, batches, chunk,
                   outstanding, sent, received, triton_result, exitReason, pollBegan,
                   pollRaised>>
    /\ UNCHANGED dkVars

\* the server process inside the container: starts listening, then loads its models
ServerAdvance ==
    /\ container = "running"
    /\ server \in {"down", "loading"}
    /\ server' = IF server = "down" THEN "loading" ELSE "ready"
    /\ UNCHANGED <<pc, phase, exc, now, server_start, pulled, container, files,
                   features, num_classes, bytes_per_sample, max_batch_size, np_rows,
                   batches, chunk, outstanding, sent, received, triton_result, log,
                   exitReason, pollBegan, pollRaised>>
    /\ UNCHANGED dkVars

\* client.is_server_ready() against the server as it is now
is_server_ready ==
    CASE server = "ready" -> "true"
      [] server = "loading" -> "false"
      [] OTHER -> "raise"

\* faulty variant of WaitLoopCatches: no except clause
CatchesNothing(e) == FALSE

\* except triton_utils.InferenceServerException: pass
WaitLoopCatches(e) == e = "InferenceServerException"

\* faulty variant of WaitIteration: a poll that raises ends the loop
WaitIterationBreakOnError(outcome, elapsed) ==
    IF outcome = "true" \/ outcome = "raise" \/ elapsed > TIMEOUT
    THEN "break" ELSE "sleep"

\* one evaluation of the loop body: "break", "sleep", or "propagate"
WaitIteration(outcome, elapsed) ==
    IF outcome = "raise"
    THEN IF WaitLoopCatches("InferenceServerException") THEN "sleep" ELSE "propagate"
    ELSE IF outcome = "true" \/ elapsed > TIMEOUT THEN "break" ELSE "sleep"

\* server_start = time.time()
WaitStart ==
    /\ At("wait_loop") /\ phase = "start"
    /\ server_start' = now
    /\ phase' = "poll"
    /\ UNCHANGED <<pc, exc, now, pulled, container, server, files, features,
                   num_classes, bytes_per_sample, max_batch_size, np_rows, batches,
                   chunk, outstanding, sent, received, triton_result, log, exitReason,
                   pollBegan, pollRaised>>
    /\ UNCHANGED dkVars

\* if client.is_server_ready() or time.time() - server_start > TIMEOUT: break
Poll ==
    /\ At("wait_loop") /\ phase = "poll"
    /\ \E d \in 0..MaxPollDelay :
        LET outcome == is_server_ready
            next == WaitIteration(outcome, (now + d) - server_start)
        IN /\ now' = now + d
           /\ pollBegan' = now - server_start
           /\ pollRaised' = (pollRaised \/ outcome = "raise")
           /\ log' = log \cup {Entry("poll")}
           /\ CASE next = "break" ->
                    /\ exitReason' = IF outcome = "true" THEN "ready" ELSE "timeout"
                    /\ pc' = pc + 1 /\ phase' = "start" /\ exc' = exc
                [] next = "sleep" ->
                    /\ phase' = "sleep"
                    /\ UNCHANGED <<pc, exc, exitReason>>
                [] OTHER ->
                    /\ exc' = "InferenceServerException"
                    /\ UNCHANGED <<pc, phase, exitReason>>
    /\ UNCHANGED <<server_start, pulled, container, server, files, features,
                   num_classes, bytes_per_sample, max_batch_size, np_rows, batches,
                   chunk, outstanding, sent, received, triton_result>>
    /\ UNCHANGED dkVars

\* time.sleep(1)
Sleep ==
    /\ At("wait_loop") /\ phase = "sleep"
    /\ now - server_start <= TIMEOUT + MaxOvertime
    /\ \E j \in 0..MaxSleepJitter : now' = now + 1 + j
    /\ phase' = "poll"
    /\ UNCHANGED <<pc, exc, server_start, pulled, container, server, files, features,
                   num_classes, bytes_per_sample, max_batch_size, np_rows, batches,
                   chunk, outstanding, sent, received, triton_result, log, exitReason,
                   pollBegan, pollRaised>>
    /\ UNCHANGED dkVars

\* !docker logs tritonserver
DockerLogs ==
    /\ At("docker_logs")
    /\ log' = log \cup {Entry("docker_logs")}
    /\ pc' = pc + 1
    /\ UNCHANGED <<phase, exc, now, server_start, pulled, container, server, files,
                   features, num_classes, bytes_per_sample, max_batch_size, np_rows,
                   batches, chunk, outstanding, sent, received, triton_result,
                   exitReason, pollBegan, pollRaised>>
    /\ UNCHANGED dkVars

\* faulty variant of AwaitResponse: the statement does not wait
AwaitNothing == "start"

\* client.infer is the synchronous call: the statement waits for the response
AwaitResponse == "wait"

\* [... for chunk in create_batches(np_data)]: the iterable is evaluated first
ChunkedBegin ==
    /\ At("chunked_predict") /\ phase = "start"
    /\ batches' = create_batches(np_rows, max_batch_size)
    /\ chunk' = 1
    /\ phase' = "call"
    /\ UNCHANGED <<pc, exc, now, server_start, pulled, container, server, files,
                   features, num_classes, bytes_per_sample, max_batch_size, np_rows,
                   outstanding, sent, received, triton_result, log, exitReason,
                   pollBegan, pollRaised>>
    /\ UNCHANGED dkVars

\* triton_predict: the request goes out
InferSend ==
    /\ \/ At("triton_predict") /\ phase = "start"
       \/ At("chunked_predict") /\ phase = "call"
    /\ outstanding' = outstanding + 1
    /\ sent' = sent + 1
    /\ log' = log \cup {Entry("infer")}
    /\ phase' = AwaitResponse
    /\ UNCHANGED <<pc, exc, now, server_start, pulled, container, server, files,
                   features, num_classes, bytes_per_sample, max_batch_size, np_rows,
                   batches, chunk, received, triton_result, exitReason, pollBegan,
                   pollRaised>>
    /\ UNCHANGED dkVars

\* local_result = small_model.predict_proba(X_test[0:5]): the two class
\* probabilities of a row the model is sure of, in millionths
local_result == <<0, Micro>>

\* what response.as_numpy('output__0') may hold: the local probabilities, one of
\* them off by 0..MaxDeviation millionths (off towards the inside of [0, 1])
ServedResults ==
    {[i \in 1..Len(local_result) |->
        IF i # k THEN local_result[i]
        ELSE IF local_result[i] + d <= Micro THEN local_result[i] + d
                                            ELSE local_result[i] - d] :
        k \in 1..Len(local_result), d \in 0..MaxDeviation}

\* faulty variant of allclose: nothing is compared
allclose_unchecked(actual, desired) == TRUE

\* assert_allclose passes iff the shapes agree and, for every element,
\* |actual - desired| <= atol + rtol * |desired| (both sides times Micro * Micro)
allclose(actual, desired) ==
    /\ Len(actual) = Len(desired)
    /\ \A i \in 1..Len(desired) :
        Abs(actual[i] - desired[i]) * Micro <= Micro + Abs(desired[i])

\* triton_predict: the response (or the error) comes back
InferReturn ==
    /\ Running /\ Cur.op \in {"triton_predict", "chunked_predict"}
    /\ phase = "wait" /\ outstanding > 0
    /\ outstanding' = outstanding - 1
    /\ received' = received + 1
    /\ IF server # "ready"
       THEN /\ exc' = "InferenceServerException"
            /\ UNCHANGED <<pc, phase, chunk, batches, triton_result>>
       ELSE /\ exc' = exc
            /\ IF Cur.op = "triton_predict"
               THEN /\ triton_result' \in ServedResults
                    /\ pc' = pc + 1 /\ phase' = "start"
                    /\ UNCHANGED <<chunk, batches>>
               ELSE /\ triton_result' = triton_result
                    /\ IF chunk < Len(batches)
                       THEN /\ chunk' = chunk + 1 /\ phase' = "call"
                            /\ UNCHANGED <<pc, batches>>
                       ELSE /\ pc' = pc + 1 /\ phase' = "start"
                            /\ chunk' = 0 /\ batches' = <<>>
    /\ UNCHANGED <<now, server_start, pulled, container, server, files, features,
                   num_classes, bytes_per_sample, max_batch_size, np_rows, sent, log,
                   exitReason, pollBegan, pollRaised>>
    /\ UNCHANGED dkVars

\* cp.testing.assert_allclose(triton_result, local_result, rtol=1e-6, atol=1e-6)
AssertAllclose ==
    /\ At("assert_allclose")
    /\ IF allclose(triton_result, local_result)
       THEN pc' = pc + 1 /\ exc' = exc
       ELSE pc' = pc /\ exc' = "AssertionError"
    /\ UNCHANGED <<phase, now, server_start, pulled, container, server, files,
                   features, num_classes, bytes_per_sample, max_batch_size, np_rows,
                   batches, chunk, outstanding, sent, received, triton_result, log,
                   exitReason, pollBegan, pollRaised>>
    /\ UNCHANGED dkVars

\* !perf_analyzer -m <model> ...
PerfAnalyzer ==
    /\ At("perf_analyzer")
    /\ log' = log \cup {Entry("perf_analyzer")}
    /\ pc' = pc + 1
    /\ UNCHANGED <<phase, exc, now, server_start, pulled, container, server, files,
                   features, num_classes, bytes_per_sample, max_batch_size, np_rows,
                   batches, chunk, outstanding, sent, received, triton_result,
                   exitReason, pollBegan, pollRaised>>
    /\ UNCHANGED dkVars

\* !docker rm -f tritonserver
DockerRm ==
    /\ At("docker_rm")
    /\ container' = "removed"
    /\ server' = "none"
    /\ log' = log \cup {Entry("docker_rm")}
    /\ pc' = pc + 1
    /\ UNCHANGED <<phase, exc, now, server_start, pulled, files, features,
                   num_classes, bytes_per_sample, max_batch_size, np_rows, batches,
                   chunk, outstanding, sent, received, triton_result, exitReason,
                   pollBegan, pollRaised>>
    /\ UNCHANGED dkVars

NbNext ==
    \/ DockerPull \/ MakeDirs \/ SerializeModel \/ ComputeMaxBatchSize
    \/ GenerateConfig \/ DockerRun \/ ServerAdvance
    \/ WaitStart \/ Poll \/ Sleep \/ DockerLogs
    \/ ChunkedBegin \/ InferSend \/ InferReturn \/ AssertAllclose
    \/ PerfAnalyzer \/ DockerRm

Next == NbNext

Spec == Init /\ [][Next]_vars

----------------------------------------------------------------------------
(* Claims about the notebook run *)

StmtIndex(op) == {i \in DOMAIN Program : Program[i].op = op}
WaitPc == CHOOSE i \in StmtIndex("wait_loop") : TRUE
LastConfigPc == CHOOSE i \in StmtIndex("generate_config") :
                    \A j \in StmtIndex("generate_config") : j <= i
BudgetPc == CHOOSE i \in StmtIndex("max_batch_size") : TRUE
InWaitLoop == pc = WaitPc /\ phase \in {"poll", "sleep"}

\* C1: the wait loop ends no later than the first poll made after more than
\* TIMEOUT seconds have passed since server_start, whatever the polls answer:
\* once a poll begun later than that has completed, the loop is not running.
C1_EndsAtFirstLatePoll ==
    (InWaitLoop /\ phase = "sleep") => pollBegan <= TIMEOUT

\* C2: the wait loop raises no failure signal: no exception leaves the loop, and
\* after it the notebook is at the next statement with no exception recorded,
\* whether the loop ended on a ready server or on the timeout.
C2_NoFailureSignal ==
    /\ pc = WaitPc => exc = "none"
    /\ exitReason # "none" => pc > WaitPc
    /\ pc = WaitPc + 1 => (exc = "none" /\ phase = "start" /\ exitReason # "none")

C2_Witness ==
    pc = WaitPc + 1 /\ exitReason = "timeout" /\ pollRaised /\ server = "loading"

C4_RepositoryCompleteAtRun ==
    \A e \in log : e.op = "docker_run" =>
        \A n \in ModelNames :
            /\ ModelFile(n) \in e.written
            /\ ConfigFile(n) \in e.written

C4_Witness ==
    /\ \E e \in log : e.op = "docker_run"
    /\ container = "running"

\* C5: the image is pulled before the container is run; every readiness poll,
\* inference request and perf_analyzer run is issued while the container is
\* started and not yet removed; the removal is the last statement.
C5_Lifecycle ==
    /\ \A e \in log :
        /\ e.op = "docker_run" => (e.pulled /\ e.container = "none")
        /\ e.op \in {"poll", "infer", "perf_analyzer"} => e.container = "running"
        /\ e.op = "docker_rm" => e.container = "running"
    /\ container = "removed" => (pc = Len(Program) + 1 /\ outstanding = 0)

C5_Witness ==
    /\ container = "removed"
    /\ \A op \in {"docker_pull", "docker_run", "poll", "infer", "perf_analyzer", "docker_rm"} :
         \E e \in log : e.op = op

\* C6: at most one inference request of the notebook's client is outstanding,
\* and a chunk is sent only when every earlier request has been answered.
C6_Synchronous ==
    /\ outstanding <= 1
    /\ sent = received + outstanding
    /\ (pc \in StmtIndex("chunked_predict") /\ phase = "call") => outstanding = 0

C6_Witness ==
    pc \in StmtIndex("chunked_predict") /\ chunk >= 2 /\ outstanding = 1

CpuCopy(m) == IF m = "small_model" THEN "small_model-cpu" ELSE "large_model-cpu"

\* C8: once the configuration files are written, each -cpu directory holds a
\* KIND_CPU configuration and its twin a KIND_GPU one, the two hold the same
\* serialized model, and the configurations differ in the instance kind only.
C8_TwoCopies ==
    pc > LastConfigPc =>
        \A m \in {"small_model", "large_model"} :
            LET gpu == files[ConfigFile(m)]
                cpu == files[ConfigFile(CpuCopy(m))]
            IN /\ cpu.instance_kind = "KIND_CPU"
               /\ gpu.instance_kind = "KIND_GPU"
               /\ [cpu EXCEPT !.instance_kind = "KIND_GPU"] = gpu
               /\ files[ModelFile(m)] = files[ModelFile(CpuCopy(m))]
               /\ files[ModelFile(m)] = TrainedModel(m)

C8_Witness ==
    /\ pc = LastConfigPc + 1
    /\ files[ConfigFile("large_model-cpu")].kind = "config"
    /\ files[ConfigFile("large_model-cpu")].input_dims = 3

----------------------------------------------------------------------------
(* The steps of the wait loop *)

\* a step that ends the loop
LoopExit == pc = WaitPc /\ pc' # pc
\* a step that is one is_server_ready call with what the loop does on its answer
PollStep == pc = WaitPc /\ phase = "poll" /\ (pc' # pc \/ phase' # phase \/ exc' # exc)
\* a step that is one time.sleep(1)
SleepStep == pc = WaitPc /\ phase = "sleep" /\ (pc' # pc \/ phase' # phase \/ now' # now)

\* C15: the loop ends only in a poll, and only when that poll returned True or
\* more than TIMEOUT seconds had passed since server_start; a poll that does
\* not end the loop is followed by a sleep and by nothing else, a sleep lasts at
\* least one second and is followed by a poll, so polls are at least one second
\* apart; a poll that returns True ends the loop in the same step, with no sleep.
C15_NoEarlyExitOnePollPerSleep ==
    [][ /\ LoopExit =>
              /\ PollStep
              /\ is_server_ready = "true" \/ now' - server_start > TIMEOUT
        /\ (PollStep /\ ~LoopExit) =>
              /\ phase' = "sleep" /\ exc' = "none"
              /\ is_server_ready # "true"
        /\ SleepStep =>
              /\ phase' = "poll" /\ pc' = pc /\ exc' = "none"
              /\ now' >= now + 1
        /\ (PollStep /\ is_server_ready = "true") =>
              /\ pc' = pc + 1 /\ exitReason' = "ready"
              /\ now' - now <= MaxPollDelay
      ]_vars

\* the loop has ended on a poll that returned True, begun at least two seconds
\* (two sleeps) after server_start, after polls that raised
C15_Witness ==
    /\ pc > WaitPc /\ exitReason = "ready"
    /\ pollBegan >= 2 /\ pollRaised

----------------------------------------------------------------------------
(* The closeness assertion *)

AssertPc == CHOOSE i \in StmtIndex("assert_allclose") : TRUE

\* every probability of the served result is within 1e-6 + 1e-6 * |local| of
\* the local one
WithinTolerance ==
    /\ Len(triton_result) = Len(local_result)
    /\ \A i \in DOMAIN local_result :
        LET off == IF triton_result[i] >= local_result[i]
                   THEN triton_result[i] - local_result[i]
                   ELSE local_result[i] - triton_result[i]
        IN off * Micro <= Micro + local_result[i]

\* C11: the notebook gets past the assertion only with a served result whose
\* every element is within rtol=1e-6, atol=1e-6 of the local result; with any
\* other result it stops at the assertion with an AssertionError, and only then
C11_AssertionGuardsCloseness ==
    /\ pc > AssertPc => WithinTolerance
    /\ (pc = AssertPc /\ exc # "none") => (exc = "AssertionError" /\ ~WithinTolerance)
    /\ exc = "AssertionError" => pc = AssertPc

\* the served result is 2e-6 where the local one is 0, and the notebook has
\* stopped at the assertion
C11_Witness ==
    /\ pc = AssertPc /\ exc = "AssertionError"
    /\ triton_result = <<2, Micro>>

----------------------------------------------------------------------------
(* create_batches on every array size and batch limit: the run is taken up at   *)
(* the first chunked inference cell, with the server ready.                     *)

\* the log of a run that has come to the chunked inference with a ready server
LogAtChunks ==
    {[op |-> "docker_pull", pulled |-> FALSE, container |-> "none", exit |-> "none",
      written |-> {}],
     [op |-> "docker_run", pulled |-> TRUE, container |-> "none", exit |-> "none",
      written |-> RepoPaths],
     [op |-> "poll", pulled |-> TRUE, container |-> "running", exit |-> "none",
      written |-> RepoPaths]}
    \cup {[op |-> o, pulled |-> TRUE, container |-> "running", exit |-> "ready",
           written |-> RepoPaths] : o \in {"docker_logs", "infer", "perf_analyzer"}}

InitBatches ==
    /\ pc \in StmtIndex("chunked_predict")
    /\ \A i \in StmtIndex("chunked_predict") : pc <= i
    /\ phase = "start" /\ exc = "none"
    /\ now = 0 /\ server_start = 0
    /\ pulled = TRUE /\ container = "running" /\ server = "ready"
    /\ num_classes = 2
    /\ \E mbs \in 1..MaxBatch :
          features = (MAX_MEMORY_BYTES \div mbs) \div 4 - num_classes
    /\ bytes_per_sample = BytesPerSample(features, num_classes)
    /\ max_batch_size = MaxBatchSize(features, num_classes)
    /\ files = [p \in RepoPaths |->
                  IF p = ModelFile(p[1])
                  THEN TrainedModel(ModelOf(p[1]))
                  ELSE ConfigText(IF p[1] = CpuCopy(ModelOf(p[1])) THEN Cpu ELSE Gpu,
                                  "AUTO", max_batch_size, features, num_classes)]
    /\ np_rows \in 0..MaxRows /\ batches = <<>> /\ chunk = 0
    /\ outstanding = 0 /\ sent = 1 /\ received = 1
    /\ triton_result = local_result /\ log = LogAtChunks
    /\ exitReason = "ready" /\ pollBegan = 0 /\ pollRaised = FALSE
    /\ DkIdle

NextBatches == ChunkedBegin \/ InferSend \/ InferReturn

SpecBatches == InitBatches /\ [][NextBatches]_vars

\* C9: every chunk create_batches returns has at most max_batch_size rows, so
\* no chunked request exceeds the max_batch_size written into config.pbtxt.
C9_ChunksWithinLimit ==
    /\ \A i \in DOMAIN batches : batches[i] <= max_batch_size
    /\ (pc \in StmtIndex("chunked_predict") /\ phase = "wait") =>
          batches[chunk] <= files[ConfigFile(Cur.a)].max_batch_size

C9_Witness ==
    /\ Len(batches) > GPU_COUNT
    /\ np_rows % max_batch_size # 0
    /\ phase = "wait" /\ batches[chunk] = max_batch_size /\ chunk >= 2

----------------------------------------------------------------------------
(* max_batch_size on every number of features and classes: the run is taken    *)
(* up at the cell that computes it.                                            *)

InitBudget ==
    /\ pc \in StmtIndex("max_batch_size")
    /\ phase = "start" /\ exc = "none"
    /\ now = 0 /\ server_start = 0
    /\ pulled = TRUE /\ container = "none" /\ server = "none"
    /\ files = [p \in RepoPaths |->
                  IF p = ModelFile(p[1]) THEN TrainedModel(ModelOf(p[1])) ELSE Absent]
    /\ features \in 1..MaxFeatures /\ num_classes \in 1..MaxClasses
    /\ bytes_per_sample = 0 /\ max_batch_size = 0
    /\ np_rows = 0 /\ batches = <<>> /\ chunk = 0
    /\ outstanding = 0 /\ sent = 0 /\ received = 0
    /\ triton_result = <<>>
    /\ log = {[op |-> "docker_pull", pulled |-> FALSE, container |-> "none",
               exit |-> "none", written |-> {}]}
    /\ exitReason = "none" /\ pollBegan = 0 /\ pollRaised = FALSE
    /\ DkIdle

NextBudget == ComputeMaxBatchSize

SpecBudget == InitBudget /\ [][NextBudget]_vars

\* C10: max_batch_size is the largest batch whose input and output arrays fit
\* in MAX_MEMORY_BYTES: max_batch_size * bytes_per_sample <= MAX_MEMORY_BYTES
\* < (max_batch_size + 1) * bytes_per_sample, with
\* bytes_per_sample = (features + num_classes) * 4.
C10_WithinBudget ==
    pc > BudgetPc =>
        /\ bytes_per_sample = (features + num_classes) * 4
        /\ max_batch_size * bytes_per_sample <= MAX_MEMORY_BYTES
        /\ (max_batch_size + 1) * bytes_per_sample > MAX_MEMORY_BYTES

C10_Witness ==
    /\ pc > BudgetPc
    /\ features = 393 /\ num_classes = 2
    /\ MAX_MEMORY_BYTES % bytes_per_sample # 0
    /\ max_batch_size = 37974

----------------------------------------------------------------------------
(* generate_config on every deployment_type: the function is called once, on a *)
(* repository that holds the serialized models.                                *)

\* the spellings of 'cpu', and strings that are not 'cpu' in any spelling: the
\* default, other device names, the empty string, 'cpu' with a blank or a
\* letter too many, a prefix of it
DeploymentTypes ==
    {<<a, b, c>> : a \in {"c", "C"}, b \in {"p", "P"}, c \in {"u", "U"}}
    \cup {Gpu, <<"G", "P", "U">>, <<"t", "p", "u">>, <<>>, <<"c", "p">>,
          <<"c", "p", "u", " ">>, <<"c", "p", "u", "s">>, <<" ", "c", "p", "u">>}

StorageTypes == {"AUTO", "DENSE"}

InitConfig ==
    /\ pc \in StmtIndex("generate_config")
    /\ \A i \in StmtIndex("generate_config") : pc <= i
    /\ phase = "start" /\ exc = "none"
    /\ now = 0 /\ server_start = 0
    /\ pulled = TRUE /\ container = "none" /\ server = "none"
    /\ \E stale \in AmbientStale :
        files = [p \in RepoPaths |->
                   IF p = ModelFile(p[1]) THEN TrainedModel(ModelOf(p[1]))
                                          ELSE stale[p]]
    /\ \E d \in Datasets :
        /\ features = d.features /\ num_classes = d.num_classes /\ np_rows = d.rows
        /\ bytes_per_sample = BytesPerSample(d.features, d.num_classes)
        /\ max_batch_size = MaxBatchSize(d.features, d.num_classes)
    /\ batches = <<>> /\ chunk = 0
    /\ outstanding = 0 /\ sent = 0 /\ received = 0
    /\ triton_result = <<>>
    /\ log = {}
    /\ exitReason = "none" /\ pollBegan = 0 /\ pollRaised = FALSE
    /\ DkIdle

\* config_path = generate_config(model_dir, deployment_type, storage_type):
\* the call, its arguments, what it returned and the repository before it
CallGenerateConfig ==
    /\ log = {}
    /\ \E model_dir \in ModelNames, deployment_type \in DeploymentTypes,
          storage_type \in StorageTypes :
        /\ files' = generate_config(files, model_dir, deployment_type, storage_type,
                                    max_batch_size, features, num_classes)
        /\ log' = {[op |-> "generate_config",
                    model_dir |-> model_dir,
                    deployment_type |-> deployment_type,
                    storage_type |-> storage_type,
                    returned |-> ConfigFile(model_dir),
                    before |-> files]}
    /\ UNCHANGED <<pc, phase, exc, now, server_start, pulled, container, server,
                   features, num_classes, bytes_per_sample, max_batch_size, np_rows,
                   batches, chunk, outstanding, sent, received, triton_result,
                   exitReason, pollBegan, pollRaised>>
    /\ UNCHANGED dkVars

NextConfig == CallGenerateConfig

SpecConfig == InitConfig /\ [][NextConfig]_vars

\* C16: after generate_config(model_dir, deployment_type, storage_type) the file
\* <model_dir>/config.pbtxt is a config whose instance kind is KIND_CPU exactly
\* when deployment_type is 'cpu' in some spelling of upper and lower case, and
\* KIND_GPU for every other string, whatever model_dir and storage_type are; no
\* exception is raised; every other file of the repository, <model_dir>/1/
\* xgboost.json included, is as it was; and the call returned
\* <model_dir>/config.pbtxt.
C16_KindFromDeploymentType ==
    \A call \in log :
        LET written == files[<<call.model_dir, "config.pbtxt">>]
            isCpu == /\ Len(call.deployment_type) = 3
                     /\ call.deployment_type[1] \in {"c", "C"}
                     /\ call.deployment_type[2] \in {"p", "P"}
                     /\ call.deployment_type[3] \in {"u", "U"}
        IN /\ written.kind = "config"
           /\ written.instance_kind = IF isCpu THEN "KIND_CPU" ELSE "KIND_GPU"
           /\ exc = "none"
           /\ \A p \in RepoPaths :
                 p # <<call.model_dir, "config.pbtxt">> => files[p] = call.before[p]
           /\ files[<<call.model_dir, "1", "xgboost.json">>].kind = "xgboost_json"
           /\ call.returned = <<call.model_dir, "config.pbtxt">>

\* generate_config was called with 'Cpu' on a directory that held a stale
\* config, and with it wrote KIND_CPU
C16_Witness ==
    \E call \in log :
        /\ call.deployment_type = <<"C", "p", "u">>
        /\ call.before[ConfigFile(call.model_dir)] = Stale
        /\ files[ConfigFile(call.model_dir)].instance_kind = "KIND_CPU"

----------------------------------------------------------------------------
(* The image build: the Dockerfile's stages and instructions *)

\* file-system entries: a path is the sequence of its components
F(path, kind, origin) == [path |-> path, kind |-> kind, origin |-> origin]

IsPrefix(p, q) == Len(p) <= Len(q) /\ SubSeq(q, 1, Len(p)) = p
Under(fs, d) == {e \in fs : IsPrefix(d, e.path) /\ e.path # d}
IsDir(fs, d) == (\E e \in fs : e.path = d /\ e.kind = "dir") \/ Under(fs, d) # {}

\* files written over the same path replace what was there
Put(fs, new) == {e \in fs : \A n \in new : n.path # e.path} \cup new

\* /opt/tritonserver/backends/${BACKEND_NAME}
Backends == <<"opt", "tritonserver", "backends">>
BackendDir(name) == Backends \o (IF name = "" THEN <<>> ELSE <<name>>)

Unset == "<unset>"
BaseImageRef == "${BASE_IMAGE}"
SdkImageRef == "${SDK_IMAGE}"
\* an existing Triton server image SERVER_IMAGE may name
PrebuiltServerRef == "tritonserver:prebuilt"

Stages == {"base", "build-prep", "build-stage", "base-test-install",
           "wheel-install-0", "sdk-image", "wheel-install-1", "test-install",
           "test-stage", "final"}

\* faulty variant of StageParent: final is built on build-stage
StageParentFinalOnBuild(stage) ==
    CASE stage = "base" -> BaseImageRef
      [] stage = "build-prep" -> "base"
      [] stage = "build-stage" -> "build-prep"
      [] stage = "base-test-install" -> "base"
      [] stage = "wheel-install-0" -> "base-test-install"
      [] stage = "sdk-image" -> SdkImageRef
      [] stage = "wheel-install-1" -> "base-test-install"
      [] stage = "test-install" ->
           IF useClientWheel = "1" THEN "wheel-install-1" ELSE "wheel-install-0"
      [] stage = "test-stage" -> serverImage
      [] stage = "final" -> "build-stage"

\* faulty variant of StageParent: test-stage is built on build-stage whatever
\* SERVER_IMAGE is
StageParentTestOnBuild(stage) ==
    CASE stage = "base" -> BaseImageRef
      [] stage = "build-prep" -> "base"
      [] stage = "build-stage" -> "build-prep"
      [] stage = "base-test-install" -> "base"
      [] stage = "wheel-install-0" -> "base-test-install"
      [] stage = "sdk-image" -> SdkImageRef
      [] stage = "wheel-install-1" -> "base-test-install"
      [] stage = "test-install" ->
           IF useClientWheel = "1" THEN "wheel-install-1" ELSE "wheel-install-0"
      [] stage = "test-stage" -> "build-stage"
      [] stage = "final" -> BaseImageRef

\* FROM <parent> as <stage>
StageParent(stage) ==
    CASE stage = "base" -> BaseImageRef
      [] stage = "build-prep" -> "base"
      [] stage = "build-stage" -> "build-prep"
      [] stage = "base-test-install" -> "base"
      [] stage = "wheel-install-0" -> "base-test-install"
      [] stage = "sdk-image" -> SdkImageRef
      [] stage = "wheel-install-1" -> "base-test-install"
      [] stage = "test-install" ->
           IF useClientWheel = "1" THEN "wheel-install-1" ELSE "wheel-install-0"
      [] stage = "test-stage" -> serverImage
      [] stage = "final" -> BaseImageRef

Ins(op, a, b) == [op |-> op, a |-> a, b |-> b]

\* the instructions of a stage after its FROM that change the file system or
\* BACKEND_NAME
Instructions(stage) ==
    CASE stage = "base" ->
           << Ins("RUN", "apt-get install", ""),
              Ins("RUN", "install miniconda", ""),
              Ins("COPY", "environment.yml", ""),
              Ins("RUN", "conda env update", ""),
              Ins("RUN", "conda init", "") >>
      [] stage = "build-prep" ->
           << Ins("RUN", "mkdir rapids_triton", ""),
              Ins("COPY", "src", ""),
              Ins("COPY", "CMakeLists.txt", ""),
              Ins("COPY", "cmake", ""),
              Ins("ARG", "BACKEND_NAME", "fil"),
              Ins("RUN", "remove stale artifacts", "") >>
      [] stage = "build-stage" ->
           << Ins("RUN", "cmake", ""),
              Ins("RUN", "ninja install", "") >>
      [] stage = "base-test-install" ->
           << Ins("COPY", "triton_test_no_client.yml", ""),
              Ins("RUN", "conda env update test", "") >>
      [] stage = "wheel-install-0" ->
           << Ins("RUN", "pip install tritonclient", "") >>
      [] stage = "sdk-image" -> << >>
      [] stage = "wheel-install-1" ->
           << Ins("COPY --from", "sdk-image", "sdk python"),
              Ins("RUN", "pip install wheel", "") >>
      [] stage = "test-install" ->
           << Ins("RUN", "pip install rapids-triton", "") >>
      [] stage = "test-stage" ->
           << Ins("RUN", "install miniconda if missing", ""),
              Ins("COPY --from", "test-install", "miniconda3"),
              Ins("COPY", "qa", ""),
              Ins("COPY", "scripts", ""),
              Ins("RUN", "sed bashrc", "") >>
      [] stage = "final" ->
           << Ins("ARG", "BACKEND_NAME", ""),
              Ins("RUN", "mkdir models", ""),
              Ins("RUN", "remove existing backend", ""),
              Ins("COPY --from", "build-stage", "backends") >>

\* the stages a stage is built from: its FROM, if that names a stage, and the
\* stages of its COPY --from instructions
DirectDeps(stage) ==
    (IF StageParent(stage) \in Stages THEN {StageParent(stage)} ELSE {})
    \cup {Instructions(stage)[i].a :
            i \in {j \in DOMAIN Instructions(stage) :
                      Instructions(stage)[j].op = "COPY --from"}}

RECURSIVE Reach(_)
Reach(S) ==
    LET T == S \cup UNION {DirectDeps(x) : x \in S}
    IN IF T = S THEN S ELSE Reach(T)

\* the stages the build of a stage runs: the stage and all it depends on
Needed(stage) == Reach({stage})

\* COPY <src> <dest> from the build context
ContextCopy(what) ==
    CASE what = "environment.yml" -> {F(<<"environment.yml">>, "file", "context")}
      [] what = "src" -> {F(<<"rapids_triton", "src">>, "dir", "context"),
                          F(<<"rapids_triton", "src", "api.cc">>, "file", "context")}
      [] what = "CMakeLists.txt" -> {F(<<"rapids_triton", "CMakeLists.txt">>, "file", "context")}
      [] what = "cmake" -> {F(<<"rapids_triton", "cmake">>, "dir", "context")}
      [] what = "triton_test_no_client.yml" ->
           {F(<<"environment.yml">>, "file", "context")}
      [] what = "qa" -> {F(<<"qa">>, "dir", "context"),
                         F(<<"qa", "entrypoint.sh">>, "file", "context")}
      [] what = "scripts" -> {F(<<"scripts">>, "dir", "context")}

\* ninja install: the compiled backend goes to the backend directory
NinjaInstall(fs, name) ==
    Put(fs, {F(<<"rapids_triton", "install", "lib">>, "dir", "build"),
             F(BackendDir(name), "dir", "build"),
             F(BackendDir(name) \o <<"libtriton_fil.so">>, "file", "build")})

\* names a shell's * does not match
Hidden(name) == name \in {".build_info", ".conda", ".bashrc"}

\* what <d>/* names and rm -rf removes: the entries of d that are not hidden,
\* with all that is under them
Glob(fs, d) == {e \in Under(fs, d) : ~Hidden(e.path[Len(d) + 1])}

\* command -v conda, with /root/miniconda3/bin on the PATH
HasConda(fs) == \E e \in fs : e.path = <<"root", "miniconda3", "bin", "conda">>

Miniconda ==
    {F(<<"root", ".conda">>, "dir", "conda"),
     F(<<"root", "miniconda3">>, "dir", "conda"),
     F(<<"root", "miniconda3", "bin", "conda">>, "file", "conda")}

\* RUN <script>: the file system after it
RunEffect(script, fs, name) ==
    CASE script = "apt-get install" ->
           Put(fs, {F(<<"usr", "bin", "wget">>, "file", "apt")})
      [] script = "install miniconda" -> Put(fs, Miniconda)
      [] script = "conda env update" ->
           Put({e \in fs : e.path # <<"environment.yml">>},
               {F(<<"root", "miniconda3", "envs", "rapids_triton_dev">>, "dir", "conda")})
      [] script = "conda init" ->
           Put(fs, {F(<<"root", ".bashrc">>, "file", "conda")})
      [] script = "mkdir rapids_triton" ->
           Put(fs, {F(<<"rapids_triton", "build">>, "dir", "build"),
                    F(<<"rapids_triton", "install">>, "dir", "build")})
      [] script = "remove stale artifacts" ->
           IF IsDir(fs, BackendDir(name))
           THEN fs \ Glob(fs, BackendDir(name))
           ELSE Put(fs, {F(BackendDir(name), "dir", "build")})
      [] script = "cmake" ->
           Put(fs, {F(<<"rapids_triton", "build", "build.ninja">>, "file", "build")})
      [] script = "ninja install" -> NinjaInstall(fs, name)
      [] script = "conda env update test" ->
           Put({e \in fs : e.path # <<"environment.yml">>},
               {F(<<"root", "miniconda3", "envs", "triton_test">>, "dir", "conda")})
      [] script = "pip install tritonclient" ->
           Put(fs, {F(<<"root", "miniconda3", "envs", "triton_test", "tritonclient">>,
                      "dir", "pip")})
      [] script = "pip install wheel" ->
           Put({e \in fs : ~IsPrefix(<<"sdk_install">>, e.path)},
               {F(<<"root", "miniconda3", "envs", "triton_test", "tritonclient">>,
                  "dir", "sdk")})
      [] script = "pip install rapids-triton" ->
           Put(fs, {F(<<"root", "miniconda3", "envs", "triton_test", "rapids_triton">>,
                      "dir", "pip")})
      [] script = "install miniconda if missing" ->
           IF HasConda(fs) THEN fs
           ELSE Put(fs, Miniconda \cup {F(<<"root", ".bashrc">>, "file", "conda")})
      [] script = "sed bashrc" ->
           IF \E e \in fs : e.path = <<"root", ".bashrc">>
           THEN Put(fs, {F(<<"root", ".bashrc">>, "file", "test")})
           ELSE fs
      [] script = "mkdir models" ->
           Put(fs, {F(<<"models">>, "dir", "final")})
      [] script = "remove existing backend" ->
           IF IsDir(fs, BackendDir(name))
           THEN fs \ Glob(fs, BackendDir(name))
           ELSE fs

\* the source and the destination of a COPY --from
CopyDirs(what, name) ==
    CASE what = "backends" -> [from |-> BackendDir(name), to |-> BackendDir(name)]
      [] what = "sdk python" -> [from |-> <<"workspace", "install", "python">>,
                                 to |-> <<"sdk_install">>]
      [] what = "miniconda3" -> [from |-> <<"root", "miniconda3">>,
                                 to |-> <<"root", "miniconda3">>]

\* COPY --from=<stage> <from> <to>: the directory's content, over what is there
CopyFrom(src, dst, from, to) ==
    Put(dst, {[e EXCEPT !.path = to \o SubSeq(e.path, Len(from) + 1, Len(e.path))] :
                 e \in Under(src, from)}
             \cup {F(to, "dir", "copy")})

\* an installed backend, as an image may hold it: the library, and with
\* hidden = TRUE a hidden file next to it
Installed(b, origin, hidden) ==
    {F(BackendDir(b), "dir", origin),
     F(BackendDir(b) \o <<"libtriton_fil.so">>, "file", origin)}
    \cup (IF hidden THEN {F(BackendDir(b) \o <<".build_info">>, "file", origin)}
                    ELSE {})

\* images ${BASE_IMAGE} may name: a backends directory with another backend,
\* with or without earlier installs of the backends the build may be asked for
BaseImages ==
    {  {F(Backends, "dir", "base"),
        F(BackendDir("onnxruntime"), "dir", "base"),
        F(BackendDir("onnxruntime") \o <<"libtriton_onnxruntime.so">>, "file", "base")}
       \cup UNION {Installed(b, "base", hidden) : b \in old}
     : old \in SUBSET {"fil", "custom"}, hidden \in BOOLEAN }

\* ${SDK_IMAGE}: the client wheel under /workspace/install/python
SdkImage ==
    {F(<<"workspace", "install", "python">>, "dir", "sdk"),
     F(<<"workspace", "install", "python", "tritonclient.whl">>, "file", "sdk")}

\* an existing server image: the backend is installed, conda is not
PrebuiltServerImage ==
    {F(Backends, "dir", "server")} \cup Installed("fil", "server", FALSE)

\* the file system of an image that is not a stage of this build
ImageFs(ref) ==
    CASE ref = BaseImageRef -> baseImage
      [] ref = SdkImageRef -> SdkImage
      [] OTHER -> PrebuiltServerImage

InitBuild ==
    /\ NbIdle
    /\ buildArg \in {Unset, "fil", "custom"}
    /\ baseImage \in BaseImages
    /\ serverImage \in {"build-stage", "base", PrebuiltServerRef}
    /\ useClientWheel \in {"0", "1"}
    /\ target \in {"final", "test-stage"}
    /\ stageFs = [s \in Stages |-> {}]
    /\ stageEnv = [s \in Stages |-> ""]
    /\ stagePc = [s \in Stages |-> 0]

Complete(stage) == stagePc[stage] > Len(Instructions(stage))
Started(stage) == stagePc[stage] > 0
NextIns(stage) == Instructions(stage)[stagePc[stage]]
Ready(stage, op) == Started(stage) /\ ~Complete(stage) /\ NextIns(stage).op = op

\* FROM: a stage the target needs starts from its parent's file system and
\* environment
From(stage) ==
    /\ stagePc[stage] = 0
    /\ stage \in Needed(target)
    /\ IF StageParent(stage) \notin Stages
       THEN /\ stageFs' = [stageFs EXCEPT ![stage] = ImageFs(StageParent(stage))]
            /\ stageEnv' = [stageEnv EXCEPT ![stage] = ""]
       ELSE /\ Complete(StageParent(stage))
            /\ stageFs' = [stageFs EXCEPT ![stage] = stageFs[StageParent(stage)]]
            /\ stageEnv' = [stageEnv EXCEPT ![stage] = stageEnv[StageParent(stage)]]
    /\ stagePc' = [stagePc EXCEPT ![stage] = 1]
    /\ UNCHANGED buildInputs
    /\ UNCHANGED nbVars

\* ARG BACKEND_NAME[=default] ; ENV BACKEND_NAME=$BACKEND_NAME
ArgEnv(stage) ==
    /\ Ready(stage, "ARG")
    /\ stageEnv' = [stageEnv EXCEPT ![stage] =
                       IF buildArg # Unset THEN buildArg ELSE NextIns(stage).b]
    /\ stagePc' = [stagePc EXCEPT ![stage] = @ + 1]
    /\ UNCHANGED <<buildInputs, stageFs>>
    /\ UNCHANGED nbVars

Run(stage) ==
    /\ Ready(stage, "RUN")
    /\ stageFs' = [stageFs EXCEPT ![stage] =
                      RunEffect(NextIns(stage).a, stageFs[stage], stageEnv[stage])]
    /\ stagePc' = [stagePc EXCEPT ![stage] = @ + 1]
    /\ UNCHANGED <<buildInputs, stageEnv>>
    /\ UNCHANGED nbVars

Copy(stage) ==
    /\ Ready(stage, "COPY")
    /\ stageFs' = [stageFs EXCEPT ![stage] = Put(stageFs[stage], ContextCopy(NextIns(stage).a))]
    /\ stagePc' = [stagePc EXCEPT ![stage] = @ + 1]
    /\ UNCHANGED <<buildInputs, stageEnv>>
    /\ UNCHANGED nbVars

CopyFromStage(stage) ==
    /\ Ready(stage, "COPY --from")
    /\ Complete(NextIns(stage).a)
    /\ LET dirs == CopyDirs(NextIns(stage).b, stageEnv[stage])
       IN stageFs' = [stageFs EXCEPT ![stage] =
                         CopyFrom(stageFs[NextIns(stage).a], stageFs[stage],
                                  dirs.from, dirs.to)]
    /\ stagePc' = [stagePc EXCEPT ![stage] = @ + 1]
    /\ UNCHANGED <<buildInputs, stageEnv>>
    /\ UNCHANGED nbVars

NextBuild ==
    \E stage \in Stages :
        \/ From(stage) \/ ArgEnv(stage) \/ Run(stage) \/ Copy(stage)
        \/ CopyFromStage(stage)

SpecBuild == InitBuild /\ [][NextBuild]_vars

\* C7: the final stage starts from the base image, and what its file system
\* holds beyond the base image's is /models and content of the directory
\* /opt/tritonserver/backends/$BACKEND_NAME of build-stage; nothing of the conda
\* installation, the source tree or the build directory is in it.
C7_FinalIsMinimal ==
    Complete("final") =>
        /\ StageParent("final") = BaseImageRef
        /\ \A e \in stageFs["final"] :
              \/ e \in baseImage
              \/ e.path = <<"models">>
              \/ e.path = BackendDir(stageEnv["final"])
              \/ /\ e \in stageFs["build-stage"]
                 /\ IsPrefix(BackendDir(stageEnv["final"]), e.path)
        /\ \A e \in stageFs["final"] :
              /\ ~IsPrefix(<<"root", "miniconda3">>, e.path)
              /\ ~IsPrefix(<<"rapids_triton">>, e.path)
              /\ e.origin \notin {"conda", "context", "apt"}

C7_Witness ==
    /\ Complete("final")
    /\ buildArg = "fil"
    /\ F(BackendDir("fil") \o <<"libtriton_fil.so">>, "file", "build") \in stageFs["final"]
    /\ F(BackendDir("fil") \o <<"libtriton_fil.so">>, "file", "base") \in baseImage
    /\ \E e \in stageFs["build-stage"] : IsPrefix(<<"root", "miniconda3">>, e.path)

\* RUN <script> has been executed in some stage
Ran(script) ==
    \E s \in Stages : \E i \in DOMAIN Instructions(s) :
        Instructions(s)[i] = Ins("RUN", script, "") /\ stagePc[s] > i

\* C12: test-stage is built FROM ${SERVER_IMAGE}.  When SERVER_IMAGE names
\* something other than build-stage, build-stage is not among the stages
\* test-stage depends on (through FROM or COPY --from), and a build of
\* test-stage runs neither cmake nor ninja install; with
\* SERVER_IMAGE=build-stage, test-stage depends on build-stage and starts only
\* after cmake and ninja install have run.
C12_ServerImageSkipsBuild ==
    /\ StageParent("test-stage") = serverImage
    /\ serverImage # "build-stage" =>
          /\ "build-stage" \notin Needed("test-stage")
          /\ target = "test-stage" =>
                ~Started("build-stage") /\ ~Ran("cmake") /\ ~Ran("ninja install")
    /\ serverImage = "build-stage" =>
          /\ "build-stage" \in DirectDeps("test-stage")
          /\ Started("test-stage") => Ran("cmake") /\ Ran("ninja install")

\* the test image has been built on an existing server image: it holds that
\* image's backend and the test environment, and build-stage never started
C12_Witness ==
    /\ target = "test-stage" /\ serverImage = PrebuiltServerRef
    /\ Complete("test-stage") /\ ~Started("build-stage")
    /\ F(BackendDir("fil") \o <<"libtriton_fil.so">>, "file", "server")
          \in stageFs["test-stage"]
    /\ \E e \in stageFs["test-stage"] : e.origin = "pip"

\* C13: built without a BACKEND_NAME build argument, the final stage has
\* BACKEND_NAME = 'fil', as build-prep has, and once its rm -rf step has run
\* every entry of the base image outside /opt/tritonserver/backends/fil is
\* still there.
C13_OnlyFilRemoved ==
    (buildArg = Unset /\ Ran("remove existing backend")) =>
        /\ stageEnv["final"] = "fil"
        /\ \A e \in baseImage :
              ~IsPrefix(BackendDir("fil"), e.path) => e \in stageFs["final"]

\* C14: once build-prep is complete its backend directory exists and is
\* empty, whether or not the base image had it, and once build-stage is
\* complete every entry of that directory was put there by this build.
C14_CleanBackendDir ==
    /\ Complete("build-prep") =>
          /\ IsDir(stageFs["build-prep"], BackendDir(stageEnv["build-prep"]))
          /\ Under(stageFs["build-prep"], BackendDir(stageEnv["build-prep"])) = {}
    /\ Complete("build-stage") =>
          \A e \in Under(stageFs["build-stage"], BackendDir(stageEnv["build-stage"])) :
              e.origin = "build"

====
